---- MODULE Spec2Model ----
(***************************************************************************)
(* The metric evaluation of tutorials/regression-part2-automated-ml.ipynb: *)
(* the RMSE cell (lines 419-423) and the MAPE cell (lines 439-454), run in *)
(* a notebook kernel whose namespace already holds y_actual (a Python list *)
(* from y_test.values.flatten().tolist(), line 392) and y_predict (the     *)
(* numpy array returned by fitted_model.predict, line 369).                *)
(*                                                                         *)
(* Numbers.  The inputs are integer-valued doubles, on which the sums and  *)
(* differences of the cells are exact.  A quotient is kept as a reduced    *)
(* fraction; the IEEE specials a numpy division can produce are kept as    *)
(* kinds "inf", "-inf" and "nan".  math.sqrt is kept in fixed point: the   *)
(* floor of SqrtScale times the root.                                      *)
(*                                                                         *)
(* Spec is that kernel, with the two cells run and re-run in any order.    *)
(* SpecNotebook is the whole notebook run top to bottom in a fresh kernel. *)
(***************************************************************************)
EXTENDS Integers, Sequences, FiniteSets, TLC

\* Bounds of the enumerated inputs.
MaxLen == 2
MaxVal == 1

\* Most rows the prepared data set holds.
MaxRows == 3

\* Fixed-point resolution of the modelled math.sqrt (thousandths).
SqrtScale == 1000

VARIABLES
    y_actual,                \* list of actual values (line 392)
    y_predict,               \* array of predicted values (line 369)
    bound,                   \* names bound in the kernel namespace
    rmse,                    \* line 422, in units of 1/SqrtScale
    rmse_cell,               \* outcome of the RMSE cell
    sum_actuals,             \* line 439 / 447
    sum_errors,              \* line 439 / 446
    sum_errors_type,         \* Python type of sum_errors: "int" or "float64"
    abs_error,               \* line 442 / 444
    zip_pos,                 \* pairs the zip iterator of line 441 has yielded
    mean_abs_percent_error,  \* line 449
    mape_cell,               \* outcome / position of the MAPE cell
    printed,                 \* numbers printed by the MAPE cell (lines 451, 454)
    cells_run,               \* code cells executed so far, top to bottom
    run_status,              \* "ok", or how the last executed cell failed
    objs                     \* the data held by the objects of lines 113-369

nbvars == <<cells_run, run_status, objs>>

vars == <<y_actual, y_predict, bound, rmse, rmse_cell, sum_actuals, sum_errors,
          sum_errors_type, abs_error, zip_pos, mean_abs_percent_error,
          mape_cell, printed, cells_run, run_status, objs>>

----------------------------------------------------------------------------
(* Double-precision values as the cells produce them. *)

Min(a, b) == IF a <= b THEN a ELSE b

RECURSIVE GCD(_, _)
GCD(a, b) == IF b = 0 THEN a ELSE GCD(b, a % b)

Magnitude(x) == IF x < 0 THEN 0 - x ELSE x

\* The finite value n/d (d /= 0), reduced, with a positive denominator.
Num(n, d) ==
    LET g == GCD(Magnitude(n), Magnitude(d))
        s == IF d < 0 THEN 0 - 1 ELSE 1
    IN  [kind |-> "num", num |-> (s * n) \div g, den |-> (s * d) \div g]

PosInf == [kind |-> "inf", num |-> 1, den |-> 0]
NegInf == [kind |-> "-inf", num |-> 0 - 1, den |-> 0]
NaN == [kind |-> "nan", num |-> 0, den |-> 0]

\* Placeholder held by a name that is not bound.
Unset == Num(0, 1)

----------------------------------------------------------------------------
(* Inputs *)

Values == (0 - MaxVal)..MaxVal

SeqsUpTo(n) == UNION {[1..k -> Values] : k \in 0..n}

\* The worked examples of the evaluation: the two concrete scenarios, an
\* all-zero actual sequence against several predictions, and sequences of
\* lengths 3 and 2.
Scenarios ==
    { <<(<<10, 20, 30>>), (<<12, 18, 33>>)>>,
      <<(<<5>>), (<<5>>)>>,
      <<(<<0, 0, 0>>), (<<0, 0, 0>>)>>,
      <<(<<0, 0, 0>>), (<<1, 0 - 1, 0>>)>>,
      <<(<<0, 0, 0>>), (<<12, 18, 33>>)>>,
      <<(<<10, 20, 30>>), (<<12, 18>>)>>,
      <<(<<12, 18>>), (<<10, 20, 30>>)>> }

Inputs == (SeqsUpTo(MaxLen) \X SeqsUpTo(MaxLen)) \cup Scenarios

----------------------------------------------------------------------------
(* RMSE cell, lines 419-423 *)

RECURSIVE SumSquaredErrors(_, _, _)
SumSquaredErrors(a, p, k) ==
    IF k = 0 THEN 0
    ELSE SumSquaredErrors(a, p, k - 1) + (a[k] - p[k]) * (a[k] - p[k])

\* Mutant: the square of the summed differences instead of the sum of squares.
RECURSIVE SumErrorsSigned(_, _, _)
SumErrorsSigned(a, p, k) ==
    IF k = 0 THEN 0 ELSE SumErrorsSigned(a, p, k - 1) + (a[k] - p[k])

MeanSquaredErrorOfSum(a, p) ==
    IF Len(a) /= Len(p) \/ Len(a) = 0
    THEN [err |-> TRUE, val |-> Unset]
    ELSE [err |-> FALSE,
          val |-> Num(SumErrorsSigned(a, p, Len(a)) * SumErrorsSigned(a, p, Len(a)),
                      Len(a))]

\* sklearn.metrics.mean_squared_error(a, p): ValueError when the two have
\* different numbers of samples or none; else the mean squared difference.
MeanSquaredError(a, p) ==
    IF Len(a) /= Len(p) \/ Len(a) = 0
    THEN [err |-> TRUE, val |-> Unset]
    ELSE [err |-> FALSE, val |-> Num(SumSquaredErrors(a, p, Len(a)), Len(a))]

RECURSIVE ISqrt(_)
ISqrt(x) ==
    IF x < 4 THEN (IF x = 0 THEN 0 ELSE 1)
    ELSE LET r == 2 * ISqrt(x \div 4)
         IN  IF (r + 1) * (r + 1) <= x THEN r + 1 ELSE r

\* Mutant: the root is not taken.
SqrtOmitted(q) == (q.num * SqrtScale) \div q.den

\* math.sqrt of a finite non-negative value, in units of 1/SqrtScale.
Sqrt(q) == ISqrt((q.num * SqrtScale * SqrtScale) \div q.den)

RmseCell ==
    /\ mape_cell /= "running"
    /\ LET m == MeanSquaredError(y_actual, y_predict)
       IN  IF m.err
           THEN /\ rmse_cell' = "ValueError"
                /\ UNCHANGED <<rmse, bound>>
           ELSE /\ rmse_cell' = "ok"
                /\ rmse' = Sqrt(m.val)
                /\ bound' = bound \cup {"rmse"}
    /\ UNCHANGED <<y_actual, y_predict, sum_actuals, sum_errors,
                   sum_errors_type, abs_error, zip_pos,
                   mean_abs_percent_error, mape_cell, printed>>

----------------------------------------------------------------------------
(* MAPE cell, lines 439-454 *)

\* Mutant: stops one pair early.
ZipLenShort(a, p) == IF Min(Len(a), Len(p)) > 0 THEN Min(Len(a), Len(p)) - 1 ELSE 0

\* zip(a, p) yields pairs until the shorter of the two is exhausted.
ZipLen(a, p) == Min(Len(a), Len(p))

\* Mutant: every actual value is paired with the first prediction.
ZipPairFirst(a, p, i) == <<a[i], p[1]>>

\* The i-th pair zip(a, p) yields.
ZipPair(a, p, i) == <<a[i], p[i]>>

\* Mutant: the sign is kept.
SignedError(actual_val, predict_val) == actual_val - predict_val

\* Lines 442-444.
AbsError(actual_val, predict_val) ==
    LET e == actual_val - predict_val
    IN  IF e < 0 THEN e * (0 - 1) ELSE e

\* Line 449: sum_errors / sum_actuals.  Two Python ints (no pair was
\* yielded) divide as Python does: ZeroDivisionError on a zero divisor.
\* Once a pair was added, sum_errors is a numpy.float64, whose division by
\* zero warns and yields inf, -inf or nan.
TrueDivide(se, se_type, sa) ==
    IF sa /= 0 THEN [err |-> FALSE, val |-> Num(se, sa)]
    ELSE IF se_type = "int" THEN [err |-> TRUE, val |-> Unset]
    ELSE IF se > 0 THEN [err |-> FALSE, val |-> PosInf]
    ELSE IF se < 0 THEN [err |-> FALSE, val |-> NegInf]
    ELSE [err |-> FALSE, val |-> NaN]

\* Mutant: mape - 1.
MapeMinusOne(q) ==
    IF q.kind = "num" THEN Num(q.num - q.den, q.den)
    ELSE q

\* Mutant: the accuracy is clamped to [0, 1].
OneMinusClamped(q) ==
    IF q.kind = "num"
    THEN (IF q.num > q.den THEN Num(0, 1)
          ELSE IF q.num < 0 THEN Num(1, 1)
          ELSE Num(q.den - q.num, q.den))
    ELSE IF q.kind = "inf" THEN Num(0, 1)
    ELSE IF q.kind = "-inf" THEN Num(1, 1)
    ELSE NaN

\* Line 454: 1 - mean_abs_percent_error.
OneMinus(q) ==
    IF q.kind = "num" THEN Num(q.den - q.num, q.den)
    ELSE IF q.kind = "inf" THEN NegInf
    ELSE IF q.kind = "-inf" THEN PosInf
    ELSE NaN

\* Mutant: sum_errors is not reset.
MapeResetKeepsErrors ==
    /\ mape_cell /= "running"
    /\ sum_actuals' = 0
    /\ sum_errors' = IF "sum_errors" \in bound THEN sum_errors ELSE 0
    /\ sum_errors_type' = IF "sum_errors" \in bound THEN sum_errors_type ELSE "int"
    /\ zip_pos' = 0
    /\ mape_cell' = "running"
    /\ printed' = <<>>
    /\ bound' = bound \cup {"sum_actuals", "sum_errors"}
    /\ UNCHANGED <<y_actual, y_predict, rmse, rmse_cell, abs_error,
                   mean_abs_percent_error>>

\* Line 439 and the creation of the zip iterator of line 441; the cell's
\* previous output is cleared.
MapeReset ==
    /\ mape_cell /= "running"
    /\ sum_actuals' = 0
    /\ sum_errors' = 0
    /\ sum_errors_type' = "int"
    /\ zip_pos' = 0
    /\ mape_cell' = "running"
    /\ printed' = <<>>
    /\ bound' = bound \cup {"sum_actuals", "sum_errors"}
    /\ UNCHANGED <<y_actual, y_predict, rmse, rmse_cell, abs_error,
                   mean_abs_percent_error>>

\* One iteration of the loop, lines 441-447.
MapeIter ==
    /\ mape_cell = "running"
    /\ zip_pos < ZipLen(y_actual, y_predict)
    /\ LET pair == ZipPair(y_actual, y_predict, zip_pos + 1)
           e == AbsError(pair[1], pair[2])
       IN  /\ abs_error' = e
           /\ sum_errors' = sum_errors + e
           /\ sum_actuals' = sum_actuals + pair[1]
    /\ sum_errors_type' = "float64"
    /\ zip_pos' = zip_pos + 1
    /\ bound' = bound \cup {"actual_val", "predict_val", "abs_error"}
    /\ UNCHANGED <<y_actual, y_predict, rmse, rmse_cell,
                   mean_abs_percent_error, mape_cell, printed>>

\* The loop is exhausted: lines 449-454.
MapeDivide ==
    /\ mape_cell = "running"
    /\ zip_pos >= ZipLen(y_actual, y_predict)
    /\ LET q == TrueDivide(sum_errors, sum_errors_type, sum_actuals)
       IN  IF q.err
           THEN /\ mape_cell' = "ZeroDivisionError"
                /\ UNCHANGED <<mean_abs_percent_error, printed, bound>>
           ELSE /\ mape_cell' = "ok"
                /\ mean_abs_percent_error' = q.val
                /\ printed' = <<q.val, OneMinus(q.val)>>
                /\ bound' = bound \cup {"mean_abs_percent_error"}
    /\ UNCHANGED <<y_actual, y_predict, rmse, rmse_cell, sum_actuals,
                   sum_errors, sum_errors_type, abs_error, zip_pos>>

----------------------------------------------------------------------------

\* No data object has been created.
NoObjs ==
    [file |-> <<>>, x_train |-> <<>>, y_train |-> <<>>, x_test |-> <<>>,
     y_test |-> <<>>, config_X |-> <<>>, config_y |-> <<>>, run_X |-> <<>>,
     run_y |-> <<>>, model_X |-> <<>>, model_y |-> <<>>, predict_X |-> <<>>]

\* The kernel once the cells down to the plotting cell have been executed:
\* the RMSE and MAPE cells are then run, and re-run, in any order.
Init ==
    /\ \E in \in Inputs : y_actual = in[1] /\ y_predict = in[2]
    /\ bound = {"y_actual", "y_predict"}
    /\ rmse = 0
    /\ rmse_cell = "notrun"
    /\ sum_actuals = 0
    /\ sum_errors = 0
    /\ sum_errors_type = "int"
    /\ abs_error = 0
    /\ zip_pos = 0
    /\ mean_abs_percent_error = Unset
    /\ mape_cell = "notrun"
    /\ printed = <<>>
    /\ cells_run = 14
    /\ run_status = "ok"
    /\ objs = NoObjs

Next ==
    \/ RmseCell /\ UNCHANGED nbvars
    \/ MapeReset /\ UNCHANGED nbvars
    \/ MapeIter /\ UNCHANGED nbvars
    \/ MapeDivide /\ UNCHANGED nbvars

Spec == Init /\ [][Next]_vars

----------------------------------------------------------------------------
(* The whole notebook, its sixteen code cells executed once each from top  *)
(* to bottom in a fresh kernel.  A cell that raises ends the run, as Run   *)
(* All does.  A row of the prepared data is named by its index; its cost   *)
(* is the value held for that index.                                       *)

NumCells == 16

\* The names a cell reads before it binds them itself (builtins left out).
CellReads(c) ==
    CASE c = 1 -> {}
      [] c = 2 -> {"Workspace", "azureml", "pd"}
      [] c = 3 -> {"os"}
      [] c = 4 -> {"dflow_prepared"}
      [] c = 5 -> {"dflow_X", "dflow_y"}
      [] c = 6 -> {"logging"}
      [] c = 7 -> {"project_folder", "x_train", "y_train", "automl_settings"}
      [] c = 8 -> {"ws", "experiment_name", "automated_ml_config"}
      [] c = 9 -> {"local_run"}
      [] c = 10 -> {"local_run", "pd"}
      [] c = 11 -> {"local_run"}
      [] c = 12 -> {"local_run"}
      [] c = 13 -> {"fitted_model", "x_test"}
      [] c = 14 -> {"x_test", "y_test", "y_predict"}
      [] c = 15 -> {"y_actual", "y_predict"}
      [] c = 16 -> {"y_actual", "y_predict"}

\* The names a cell binds, in the order it binds them.
CellBinds(c) ==
    CASE c = 1 -> <<"azureml", "pd", "Workspace", "logging">>
      [] c = 2 -> <<"ws", "experiment_name", "project_folder", "os", "output",
                    "outputDf">>
      [] c = 3 -> <<"dprep", "file_path", "package_saved", "dflow_prepared">>
      [] c = 4 -> <<"dflow_X", "dflow_y">>
      [] c = 5 -> <<"train_test_split", "x_df", "y_df", "x_train", "x_test",
                    "y_train", "y_test">>
      [] c = 6 -> <<"automl_settings">>
      [] c = 7 -> <<"AutoMLConfig", "automated_ml_config">>
      [] c = 8 -> <<"Experiment", "experiment", "local_run">>
      [] c = 9 -> <<"RunDetails">>
      [] c = 10 -> <<"children", "metricslist", "run", "properties", "metrics",
                     "rundata">>
      [] c = 11 -> <<"best_run", "fitted_model">>
      [] c = 12 -> <<"description", "tags">>
      [] c = 13 -> <<"y_predict">>
      [] c = 14 -> <<"plt", "fig", "ax1", "distance_vals", "y_actual">>
      [] c = 15 -> <<"mean_squared_error", "sqrt", "rmse">>
      [] c = 16 -> <<"sum_actuals", "sum_errors", "actual_val", "predict_val",
                     "abs_error", "mean_abs_percent_error">>

FirstBound(c, k) == {CellBinds(c)[i] : i \in 1..k}

AllBound(c) == FirstBound(c, Len(CellBinds(c)))

\* The cells that only bind names: imports, workspace, data flow, settings,
\* widget, run metrics, registration.
PlainCells == {1, 2, 3, 4, 6, 9, 10, 12}

\* The cells that call a library or a service, which may raise.
FallibleCells == (1..14) \ {6}

\* Cell c is the next one of the run.
Ready(c) == run_status = "ok" /\ cells_run = c - 1

Missing(c) == ~(CellReads(c) \subseteq bound)

MetricVars == <<rmse, rmse_cell, sum_actuals, sum_errors, sum_errors_type,
                abs_error, zip_pos, mean_abs_percent_error, mape_cell, printed>>

\* Cell c reads a name that is not bound.
NameError(c) ==
    /\ run_status' = "NameError"
    /\ cells_run' = c
    /\ UNCHANGED <<bound, objs, y_actual, y_predict, MetricVars>>

\* Cell c runs to its end, leaving the data objects as o.
Completes(c, o) ==
    /\ run_status' = "ok"
    /\ cells_run' = c
    /\ bound' = bound \cup AllBound(c)
    /\ objs' = o

CostsOf(ids) == [i \in 1..Len(ids) |-> objs.file[ids[i]]]

Range(q) == {q[i] : i \in 1..Len(q)}

RECURSIVE Ascending(_)
Ascending(S) ==
    IF S = {} THEN <<>>
    ELSE LET m == CHOOSE x \in S : \A y \in S : x <= y
         IN  <<m>> \o Ascending(S \ {m})

\* train_test_split(..., test_size=0.2): ceil(0.2 * n) rows are held out.
TestSize(n) == (n + 4) \div 5

\* The orders in which k of the n rows can be held out.
HeldOut(n, k) ==
    {q \in [1..k -> 1..n] : \A i, j \in 1..k : i /= j => q[i] /= q[j]}

PlainCell ==
    \E c \in PlainCells :
        /\ Ready(c)
        /\ IF Missing(c) THEN NameError(c)
           ELSE /\ Completes(c, objs)
                /\ UNCHANGED <<y_actual, y_predict, MetricVars>>

\* Lines 154-162.  The seeded shuffle is a fixed permutation this model
\* does not know: any choice of the held-out rows.
SplitCell ==
    /\ Ready(5)
    /\ IF Missing(5) THEN NameError(5)
       ELSE LET n == Len(objs.file)
            IN  \E te \in HeldOut(n, TestSize(n)) :
                    LET tr == Ascending((1..n) \ Range(te))
                    IN  /\ Completes(5, [objs EXCEPT !.x_train = tr,
                                                      !.y_train = CostsOf(tr),
                                                      !.x_test = te,
                                                      !.y_test = CostsOf(te)])
                        /\ UNCHANGED <<y_actual, y_predict, MetricVars>>

\* Mutant: the whole data set is handed to the search.
ConfigDataAll(o) ==
    [X |-> [i \in 1..Len(o.file) |-> i], y |-> o.file]

\* Lines 222-227: X = x_train.values, y = y_train.values.flatten().
ConfigData(o) == [X |-> o.x_train, y |-> o.y_train]

ConfigCell ==
    /\ Ready(7)
    /\ IF Missing(7) THEN NameError(7)
       ELSE /\ Completes(7, [objs EXCEPT !.config_X = ConfigData(objs).X,
                                         !.config_y = ConfigData(objs).y])
            /\ UNCHANGED <<y_actual, y_predict, MetricVars>>

\* Lines 250-252: the search runs on the data of the configuration.
SubmitCell ==
    /\ Ready(8)
    /\ IF Missing(8) THEN NameError(8)
       ELSE /\ Completes(8, [objs EXCEPT !.run_X = objs.config_X,
                                         !.run_y = objs.config_y])
            /\ UNCHANGED <<y_actual, y_predict, MetricVars>>

\* Lines 328-330: the best pipeline of the run, fitted on the run's data.
GetOutputCell ==
    /\ Ready(11)
    /\ IF Missing(11) THEN NameError(11)
       ELSE /\ Completes(11, [objs EXCEPT !.model_X = objs.run_X,
                                          !.model_y = objs.run_y])
            /\ UNCHANGED <<y_actual, y_predict, MetricVars>>

\* Lines 369-370: one prediction per row of x_test.values, whatever the
\* fitted pipeline computes.
PredictCell ==
    /\ Ready(13)
    /\ IF Missing(13) THEN NameError(13)
       ELSE \E out \in [1..Len(objs.x_test) -> Values] :
                /\ Completes(13, [objs EXCEPT !.predict_X = objs.x_test])
                /\ y_predict' = out
                /\ UNCHANGED <<y_actual, MetricVars>>

\* Lines 386-403: y_actual = y_test.values.flatten().tolist().
PlotCell ==
    /\ Ready(14)
    /\ IF Missing(14) THEN NameError(14)
       ELSE /\ Completes(14, objs)
            /\ y_actual' = objs.y_test
            /\ UNCHANGED <<y_predict, MetricVars>>

\* The cells whose last fallible call is the one whose result they bind
\* last: a failure leaves that last name unbound.
BindLast == {5, 7, 8, 11, 13}

\* A library or service call of cell c raises after the cell has bound its
\* first k names: the run ends there.
CellFails ==
    \E c \in FallibleCells :
        /\ Ready(c)
        /\ ~Missing(c)
        /\ \E k \in 0..(Len(CellBinds(c)) - (IF c \in BindLast THEN 1 ELSE 0)) :
               /\ bound' = bound \cup FirstBound(c, k)
               /\ y_actual' = IF "y_actual" \in FirstBound(c, k)
                               THEN objs.y_test ELSE y_actual
        /\ run_status' = "error"
        /\ cells_run' = c
        /\ UNCHANGED <<objs, y_predict, MetricVars>>

\* The RMSE cell as the fifteenth cell of the run.
RunRmseCell ==
    /\ Ready(15)
    /\ IF Missing(15) THEN NameError(15)
       ELSE /\ RmseCell
            /\ cells_run' = 15
            /\ run_status' = IF rmse_cell' = "ok" THEN "ok" ELSE "error"
            /\ UNCHANGED objs

\* The MAPE cell as the sixteenth.
RunMapeReset ==
    /\ Ready(16)
    /\ mape_cell = "notrun"
    /\ IF Missing(16) THEN NameError(16)
       ELSE MapeReset /\ UNCHANGED nbvars

RunMapeIter == Ready(16) /\ MapeIter /\ UNCHANGED nbvars

RunMapeDivide ==
    /\ Ready(16)
    /\ MapeDivide
    /\ cells_run' = 16
    /\ run_status' = IF mape_cell' = "ok" THEN "ok" ELSE "error"
    /\ UNCHANGED objs

Datasets == UNION {[1..n -> Values] : n \in 2..MaxRows}

\* A fresh kernel beside the prepared data of part 1 (dflows.dprep).
InitNotebook ==
    /\ \E d \in Datasets : objs = [NoObjs EXCEPT !.file = d]
    /\ cells_run = 0
    /\ run_status = "ok"
    /\ bound = {}
    /\ y_actual = <<>>
    /\ y_predict = <<>>
    /\ rmse = 0
    /\ rmse_cell = "notrun"
    /\ sum_actuals = 0
    /\ sum_errors = 0
    /\ sum_errors_type = "int"
    /\ abs_error = 0
    /\ zip_pos = 0
    /\ mean_abs_percent_error = Unset
    /\ mape_cell = "notrun"
    /\ printed = <<>>

NextNotebook ==
    \/ PlainCell
    \/ SplitCell
    \/ ConfigCell
    \/ SubmitCell
    \/ GetOutputCell
    \/ PredictCell
    \/ PlotCell
    \/ CellFails
    \/ RunRmseCell
    \/ RunMapeReset
    \/ RunMapeIter
    \/ RunMapeDivide

SpecNotebook == InitNotebook /\ [][NextNotebook]_vars

----------------------------------------------------------------------------
(* What the claims are stated in: the sums over the whole sequences,       *)
(* written apart from the cells' loops.                                    *)

RECURSIVE Total(_, _)
Total(s, k) == IF k = 0 THEN 0 ELSE Total(s, k - 1) + s[k]

RECURSIVE TotalAbsDiff(_, _, _)
TotalAbsDiff(a, p, k) ==
    IF k = 0 THEN 0 ELSE TotalAbsDiff(a, p, k - 1) + Magnitude(a[k] - p[k])

RatAdd(x, y) == Num(x.num * y.den + y.num * x.den, x.den * y.den)

RECURSIVE TotalOfRatios(_, _, _)
TotalOfRatios(a, p, k) ==
    IF k = 0 THEN Num(0, 1)
    ELSE RatAdd(TotalOfRatios(a, p, k - 1),
                Num(Magnitude(a[k] - p[k]), Magnitude(a[k])))

\* The textbook MAPE: the mean of the per-pair ratios |a - p| / |a|.
MeanOfRatios(a, p) ==
    LET t == TotalOfRatios(a, p, Len(a)) IN Num(t.num, t.den * Len(a))

SumActual == Total(y_actual, Len(y_actual))

ValidInput == Len(y_actual) = Len(y_predict) /\ Len(y_actual) >= 1

MapeFinished == mape_cell \in {"ok", "ZeroDivisionError"}

RmseFinished == rmse_cell \in {"ok", "ValueError"}

\* x + y = 1, for finite x and y.
SumsToOne(x, y) ==
    /\ x.kind = "num" /\ y.kind = "num"
    /\ x.num * y.den + y.num * x.den = x.den * y.den

\* x = 1 - y as IEEE doubles compare: a NaN equals nothing, an infinity
\* equals the infinity of the same sign.
IsOneMinus(x, y) ==
    \/ SumsToOne(x, y)
    \/ x.kind = "-inf" /\ y.kind = "inf"
    \/ x.kind = "inf" /\ y.kind = "-inf"

----------------------------------------------------------------------------
\* C1: on equal-length non-empty sequences whose actual values do not sum
\* to zero, the MAPE the cell produces is the sum of |actual[i] -
\* predicted[i]| over all i divided by the sum of actual[i] over all i.
C1_RatioOfSums ==
    (ValidInput /\ SumActual /= 0 /\ MapeFinished) =>
        /\ mape_cell = "ok"
        /\ mean_abs_percent_error.kind = "num"
        /\ mean_abs_percent_error.num * SumActual
             = mean_abs_percent_error.den
                 * TotalAbsDiff(y_actual, y_predict, Len(y_actual))
        /\ printed[1] = mean_abs_percent_error

\* A finished evaluation whose ratio of sums is not the mean of the ratios.
C1_Witness ==
    /\ ValidInput /\ SumActual /= 0 /\ mape_cell = "ok"
    /\ \A i \in 1..Len(y_actual) : y_actual[i] /= 0
    /\ mean_abs_percent_error /= MeanOfRatios(y_actual, y_predict)
    /\ mean_abs_percent_error.num > 0

\* C2 (as claimed): when the actual values sum to zero the MAPE cell ends
\* in a division-by-zero error, whatever the predictions, and prints
\* nothing.
C2_ZeroSumRaises ==
    (SumActual = 0 /\ MapeFinished) =>
        (mape_cell = "ZeroDivisionError" /\ printed = <<>>)

\* C3 (as claimed): on sequences of different lengths, or with an empty
\* one, a finished cell has failed with an input error and no metric was
\* produced.
C3_MismatchRejected ==
    (~ValidInput) =>
        /\ RmseFinished => (rmse_cell = "ValueError" /\ "rmse" \notin bound)
        /\ MapeFinished =>
              (mape_cell /= "ok" /\ printed = <<>>
               /\ "mean_abs_percent_error" \notin bound)

\* C4 (as claimed): on equal-length non-empty sequences with at least one
\* nonzero actual value, both cells finish without failing, rmse >= 0 and
\* accuracy = 1 - mape.
C4_AnyNonzeroActual ==
    (ValidInput /\ (\E i \in 1..Len(y_actual) : y_actual[i] /= 0)) =>
        /\ RmseFinished => (rmse_cell = "ok" /\ rmse >= 0)
        /\ MapeFinished =>
              (mape_cell = "ok" /\ IsOneMinus(printed[2], printed[1]))

\* C4 (amended): on equal-length non-empty sequences whose actual values
\* have a nonzero sum, both cells finish without failing, rmse >= 0 and
\* accuracy = 1 - mape.
C4_NonzeroSum ==
    (ValidInput /\ SumActual /= 0) =>
        /\ RmseFinished => (rmse_cell = "ok" /\ rmse >= 0)
        /\ MapeFinished =>
              (mape_cell = "ok" /\ SumsToOne(printed[2], printed[1])
               /\ printed[1] = mean_abs_percent_error)

\* Both cells finished on valid input with a nonzero sum and an inexact fit.
C4_Witness ==
    /\ ValidInput /\ SumActual /= 0
    /\ rmse_cell = "ok" /\ rmse > 0
    /\ mape_cell = "ok" /\ printed[2].num > 0 /\ printed[1].num > 0

\* C5: the accuracy is never clamped: on valid input whose MAPE exceeds 1
\* the printed accuracy is the negative number 1 - mape.
C5_NotClamped ==
    (ValidInput /\ SumActual /= 0 /\ mape_cell = "ok"
       /\ mean_abs_percent_error.num > mean_abs_percent_error.den) =>
        /\ printed[2].kind = "num"
        /\ printed[2].num < 0
        /\ printed[2].num * mean_abs_percent_error.den
             = (mean_abs_percent_error.den - mean_abs_percent_error.num)
                 * printed[2].den

\* A finished evaluation whose MAPE is 2 or more: accuracy -1 or below.
C5_Witness ==
    /\ ValidInput /\ SumActual /= 0 /\ mape_cell = "ok"
    /\ mean_abs_percent_error.num >= 2 * mean_abs_percent_error.den
    /\ printed[2].num + printed[2].den <= 0

\* C6: on equal-length non-empty sequences whose actual values do not sum
\* to zero, the MAPE is zero exactly when the two sequences are equal.
C6_MapeZeroIffEqual ==
    (ValidInput /\ SumActual /= 0 /\ MapeFinished) =>
        /\ mape_cell = "ok"
        /\ mean_abs_percent_error.kind = "num"
        /\ (mean_abs_percent_error.num = 0) <=> (y_actual = y_predict)

\* A finished evaluation of two different sequences whose signed
\* differences sum to zero, with a nonzero MAPE.
C6_Witness ==
    /\ ValidInput /\ SumActual /= 0 /\ mape_cell = "ok"
    /\ y_actual /= y_predict
    /\ Total(y_actual, Len(y_actual)) = Total(y_predict, Len(y_predict))
    /\ mean_abs_percent_error.num /= 0

\* C7: on equal-length non-empty sequences the RMSE cell succeeds and the
\* RMSE is zero exactly when the two sequences are equal.
C7_RmseZeroIffEqual ==
    (ValidInput /\ RmseFinished) =>
        /\ rmse_cell = "ok"
        /\ "rmse" \in bound
        /\ (rmse = 0) <=> (y_actual = y_predict)

\* A finished RMSE of two different sequences whose signed differences sum
\* to zero.
C7_Witness ==
    /\ ValidInput /\ rmse_cell = "ok"
    /\ y_actual /= y_predict
    /\ Total(y_actual, Len(y_actual)) = Total(y_predict, Len(y_predict))
    /\ rmse > 0

ScenarioA == y_actual = <<10, 20, 30>> /\ y_predict = <<12, 18, 33>>

ScenarioB == y_actual = <<5>> /\ y_predict = <<5>>

\* C8: on actual = [10, 20, 30], predicted = [12, 18, 33] the squared errors
\* are 4, 4, 9, the rmse is the root of 17/3, the absolute errors are
\* 2, 2, 3 with sum 7, the actual values sum to 60, the MAPE is 7/60 and the
\* accuracy 53/60; on actual = [5], predicted = [5] the rmse is 0, the MAPE
\* 0 and the accuracy 1.
C8_Scenarios ==
    /\ (ScenarioA /\ RmseFinished) =>
          /\ rmse_cell = "ok"
          /\ MeanSquaredError(y_actual, y_predict).val
               = [kind |-> "num", num |-> 17, den |-> 3]
          /\ SumSquaredErrors(y_actual, y_predict, 1) = 4
          /\ SumSquaredErrors(y_actual, y_predict, 2) = 4 + 4
          /\ SumSquaredErrors(y_actual, y_predict, 3) = 4 + 4 + 9
          /\ 3 * rmse * rmse <= 17 * SqrtScale * SqrtScale
          /\ 3 * (rmse + 1) * (rmse + 1) > 17 * SqrtScale * SqrtScale
    /\ (ScenarioA /\ mape_cell = "running" /\ zip_pos >= 1) =>
          /\ abs_error = (<<2, 2, 3>>)[zip_pos]
          /\ sum_errors = (<<2, 4, 7>>)[zip_pos]
          /\ sum_actuals = (<<10, 30, 60>>)[zip_pos]
    /\ (ScenarioA /\ MapeFinished) =>
          /\ mape_cell = "ok"
          /\ sum_errors = 7 /\ sum_actuals = 60
          /\ mean_abs_percent_error = [kind |-> "num", num |-> 7, den |-> 60]
          /\ printed = << [kind |-> "num", num |-> 7, den |-> 60],
                          [kind |-> "num", num |-> 53, den |-> 60] >>
    /\ (ScenarioB /\ RmseFinished) => (rmse_cell = "ok" /\ rmse = 0)
    /\ (ScenarioB /\ MapeFinished) =>
          /\ mape_cell = "ok"
          /\ printed = << [kind |-> "num", num |-> 0, den |-> 1],
                          [kind |-> "num", num |-> 1, den |-> 1] >>

\* Both cells have finished on the first scenario.
C8_Witness ==
    /\ ScenarioA /\ rmse_cell = "ok" /\ mape_cell = "ok"
    /\ rmse > 2 * SqrtScale /\ Len(printed) = 2

\* C9: no step changes y_actual or y_predict, a run of the MAPE cell starts
\* from zeroed accumulators, and a run that follows an earlier one ends
\* with the MAPE and the accuracy the earlier one produced.
C9_Pure ==
    [][ /\ y_actual' = y_actual
        /\ y_predict' = y_predict
        /\ (mape_cell = "running" /\ mape_cell' /= "running"
              /\ "mean_abs_percent_error" \in bound) =>
              /\ mape_cell' = "ok"
              /\ mean_abs_percent_error' = mean_abs_percent_error
              /\ printed'[1] = mean_abs_percent_error
              /\ (mean_abs_percent_error.kind = "num" =>
                    SumsToOne(printed'[2], mean_abs_percent_error))
              /\ sum_errors' = TotalAbsDiff(y_actual, y_predict,
                                            Min(Len(y_actual), Len(y_predict)))
      ]_vars

\* The MAPE cell is being run again over an inexact fit: the result of the
\* run before is still bound and the loop of the new run has accumulated
\* the same ratio.
C9_Witness ==
    /\ mape_cell = "running" /\ "mean_abs_percent_error" \in bound
    /\ printed = <<>>
    /\ mean_abs_percent_error.num > 0
    /\ zip_pos = 2 /\ Len(y_actual) = 2 /\ Len(y_predict) = 2
    /\ sum_errors * mean_abs_percent_error.den
         = sum_actuals * mean_abs_percent_error.num

\* What C10 says of one state.
LoopInvariant ==
    /\ (mape_cell = "running" \/ MapeFinished) =>
          /\ zip_pos <= Min(Len(y_actual), Len(y_predict))
          /\ sum_errors = TotalAbsDiff(y_actual, y_predict, zip_pos)
          /\ sum_actuals = Total(y_actual, zip_pos)
          /\ sum_errors >= 0
    /\ MapeFinished => zip_pos = Min(Len(y_actual), Len(y_predict))
    /\ (mape_cell = "ok" /\ sum_actuals > 0) =>
          (mean_abs_percent_error.kind = "num" /\ mean_abs_percent_error.num >= 0)
    /\ (mape_cell = "ok" /\ sum_actuals < 0) =>
          (mean_abs_percent_error.kind = "num" /\ mean_abs_percent_error.num <= 0)

\* C10: the loop of the MAPE cell ends after min(len(y_actual),
\* len(y_predict)) iterations; after k iterations sum_errors is the sum of
\* |y_actual[i] - y_predict[i]| and sum_actuals the sum of y_actual[i] over
\* the first k pairs; sum_errors never decreases within a run; the final
\* MAPE is >= 0 when the actual values sum to a positive number and <= 0
\* when they sum to a negative one.
C10_Loop ==
    [][ /\ LoopInvariant'
        /\ (mape_cell = "running" /\ mape_cell' = "running") =>
              (zip_pos' = zip_pos + 1 /\ sum_errors' >= sum_errors)
        /\ (mape_cell = "running" /\ mape_cell' /= "running") =>
              zip_pos = Min(Len(y_actual), Len(y_predict))
      ]_vars

\* The loop has run over sequences of lengths 3 and 2 and stopped after two
\* iterations.
C10_Witness ==
    /\ Len(y_actual) = 3 /\ Len(y_predict) = 2
    /\ mape_cell = "ok" /\ zip_pos = 2 /\ sum_errors > 0

\* C11: in a top-to-bottom run no cell fails on an unbound name, and the
\* cell about to run finds every name it reads bound; y_predict is bound
\* no earlier than the prediction cell (the thirteenth) and y_actual no
\* earlier than the plotting cell (the fourteenth), both before the RMSE
\* and MAPE cells; the search and the fitted model have seen exactly the
\* training rows and costs, none of them a held-out row; and the metric
\* cells run only after the best model was retrieved, on the costs of the
\* held-out rows and the predictions made for those rows.
C11_TopToBottom ==
    /\ run_status /= "NameError"
    /\ \A c \in 1..NumCells : Ready(c) => CellReads(c) \subseteq bound
    /\ "y_predict" \in bound => cells_run >= 13
    /\ "y_actual" \in bound => cells_run >= 14
    /\ cells_run >= 15 => {"y_actual", "y_predict"} \subseteq bound
    /\ objs.run_X /= <<>> =>
          /\ objs.run_X = objs.x_train /\ objs.run_y = objs.y_train
          /\ Range(objs.run_X) \cap Range(objs.x_test) = {}
          /\ objs.run_y = CostsOf(objs.run_X)
    /\ objs.model_X /= <<>> =>
          /\ objs.model_X = objs.x_train /\ objs.model_y = objs.y_train
          /\ Range(objs.model_X) \cap Range(objs.x_test) = {}
    /\ (rmse_cell /= "notrun" \/ mape_cell /= "notrun") =>
          /\ cells_run >= 14
          /\ "fitted_model" \in bound
          /\ objs.model_X /= <<>>
          /\ objs.predict_X = objs.x_test
          /\ Len(y_predict) = Len(objs.x_test)
          /\ y_actual = CostsOf(objs.x_test)
          /\ Range(objs.x_test) \cap Range(objs.x_train) = {}
          /\ Range(objs.x_test) \cup Range(objs.x_train) = 1..Len(objs.file)

\* All sixteen cells have run without failing, over a fit that is not
\* exact.
C11_Witness ==
    /\ cells_run = NumCells /\ run_status = "ok"
    /\ rmse_cell = "ok" /\ rmse > 0
    /\ mape_cell = "ok" /\ Len(printed) = 2
    /\ Len(objs.run_X) >= 2 /\ Len(objs.x_test) >= 1
    /\ y_actual /= y_predict

====
